---- MODULE Spec2Model ----
(***************************************************************************)
(* A model of src/vs/editor/contrib/rename/rename.ts: the provider         *)
(* fallback chain of RenameSkeleton and the session control flow of        *)
(* RenameController.run.  Every promise continuation of the source is one  *)
(* action; what the providers, the rename input field, the bulk edit       *)
(* service and the user answer is drawn from small sets.                   *)
(***************************************************************************)
EXTENDS Integers, Sequences, FiniteSets, TLC

\* ------------------------------------------------------------------ bounds

\* longest provider chain the registry hands out
MaxProviders == 3
\* number of user interactions with the editor (type, select, scroll) in a run
MaxUserEdits == 2
\* number of times the rename action is invoked
MaxRuns == 2

\* columns of a line that selections and resolved ranges start and end at
MaxColumn == 4

\* ------------------------------------------------------- values and strings

\* the value of an absent field or variable
undefined == "undefined"

\* JavaScript truthiness of a string-or-undefined value: "" and undefined are falsy
Truthy(v) == v # undefined /\ v # ""

\* `!result` of a provider that yields no result object
NoResult == [null |-> TRUE]

\* Array.prototype.join
RECURSIVE join(_, _)
join(strs, sep) ==
    IF Len(strs) = 0 THEN ""
    ELSE IF Len(strs) = 1 THEN Head(strs)
    ELSE Head(strs) \o sep \o join(Tail(strs), sep)

\* nls.localize('no result', "No result.")
NoResultMessage == "No result."

\* nls.localize('rename.failed', "Rename failed to execute.")
RenameFailedMessage == "Rename failed to execute."

\* ------------------------------------------------------ positions and ranges

Pos(l, c) == [lineNumber |-> l, column |-> c]

Rng(sl, sc, el, ec) ==
    [startLineNumber |-> sl, startColumn |-> sc, endLineNumber |-> el, endColumn |-> ec]

\* Range.lift(range).getStartPosition()
getStartPosition(range) == Pos(range.startLineNumber, range.startColumn)

\* Range.isEmpty
isEmpty(range) ==
    /\ range.startLineNumber = range.endLineNumber
    /\ range.startColumn = range.endColumn

\* Range.spansMultipleLines
spansMultipleLines(range) == range.endLineNumber > range.startLineNumber

\* Range.containsRange(range, otherRange)
containsRange(range, otherRange) ==
    /\ ~(otherRange.startLineNumber < range.startLineNumber)
    /\ ~(otherRange.endLineNumber < range.startLineNumber)
    /\ ~(otherRange.startLineNumber > range.endLineNumber)
    /\ ~(otherRange.endLineNumber > range.endLineNumber)
    /\ ~(/\ otherRange.startLineNumber = range.startLineNumber
         /\ otherRange.startColumn < range.startColumn)
    /\ ~(/\ otherRange.endLineNumber = range.endLineNumber
         /\ otherRange.endColumn > range.endColumn)

Max(a, b) == IF a >= b THEN a ELSE b

Min(a, b) == IF a <= b THEN a ELSE b

\* ------------------------------------------------------------- the document

\* the lines of the text model: "foo  x" (two blanks between the words) and
\* "let fooBarX"
DocumentLines ==
    << <<"f", "o", "o", " ", " ", "x">>,
       <<"l", "e", "t", " ", "f", "o", "o", "B", "a", "r", "X">> >>

IsWordChar(ch) == ch # " "

\* the text of columns [from, to) of a line
RECURSIVE lineText(_, _, _)
lineText(line, from, to) ==
    IF from >= to THEN "" ELSE line[from] \o lineText(line, from + 1, to)

\* ITextModel.getValueInRange: the text of a range, lines joined by "\n"
RECURSIVE getValueInRange(_)
getValueInRange(range) ==
    IF range.startLineNumber = range.endLineNumber
    THEN lineText(DocumentLines[range.startLineNumber], range.startColumn,
                  range.endColumn)
    ELSE lineText(DocumentLines[range.startLineNumber], range.startColumn,
                  Len(DocumentLines[range.startLineNumber]) + 1)
         \o "\n"
         \o getValueInRange([range EXCEPT !.startLineNumber = @ + 1,
                                          !.startColumn = 1])

\* ITextModel.getWordAtPosition: the word that contains the column or ends or
\* starts at it, with its start column and its end column (exclusive)
getWordAtPosition(position) ==
    LET line == DocumentLines[position.lineNumber]
        n == Len(line)
        words == { w \in (1..n) \X (2..(n + 1)) :
                     /\ w[1] < w[2]
                     /\ \A k \in w[1]..(w[2] - 1) : IsWordChar(line[k])
                     /\ (w[1] = 1 \/ ~IsWordChar(line[w[1] - 1]))
                     /\ (w[2] = n + 1 \/ ~IsWordChar(line[w[2]]))
                     /\ w[1] <= position.column
                     /\ position.column <= w[2] }
    IN  IF words = {} THEN NoResult
        ELSE LET w == CHOOSE x \in words : \A y \in words : x[1] <= y[1]
             IN  [word |-> lineText(line, w[1], w[2]),
                  startColumn |-> w[1], endColumn |-> w[2]]

\* ------------------------------------------------------------------ editor

\* the selections the user makes: the cursor inside "foo", the cursor between
\* the two blanks, and "o" selected inside "foo"
Selections == { Rng(1, 2, 1, 2), Rng(1, 5, 1, 5), Rng(1, 2, 1, 3) }

\* the positions of the first MaxColumn columns of each line
GridPositions == (1..Len(DocumentLines)) \X (1..MaxColumn)

\* the ranges between two grid positions, the first not after the second
GridRanges ==
    { Rng(p[1][1], p[1][2], p[2][1], p[2][2]) :
        p \in { q \in GridPositions \X GridPositions :
                  \/ q[1][1] < q[2][1]
                  \/ q[1][1] = q[2][1] /\ q[1][2] <= q[2][2] } }

\* editor selections for the pre-fill: every grid range, empty ones included,
\* and columns [7, 9) of "let fooBarX"
PrefillSelections == GridRanges \cup { Rng(2, 7, 2, 9) }

\* ICodeEditor.getPosition(): the cursor is the end of the selection
PositionOf(selection) == Pos(selection.endLineNumber, selection.endColumn)

\* an EditorState built without CodeEditorStateFlag.Scroll
EditorStateNoScroll(ed) ==
    [position |-> ed.position, versionId |-> ed.versionId,
     selection |-> ed.selection, scrollTop |-> 0]

\* new EditorState(editor, Position | Value | Selection | Scroll)
EditorState(ed) ==
    [position |-> ed.position, versionId |-> ed.versionId,
     selection |-> ed.selection, scrollTop |-> ed.scrollTop]

\* EditorState.validate(editor)
validate(state, ed) == state = EditorState(ed)

\* ------------------------------------------------- providers and responses

\* a RenameProvider: whether it implements the optional resolveRenameLocation
Providers == [resolveRenameLocation : BOOLEAN]

\* RenameProviderRegistry.ordered(model): the chains of at most MaxProviders
Chains == UNION { [1..n -> Providers] : n \in 0..MaxProviders }

\* an error thrown by a collaborator
Thrown(what) == [error |-> what]

IsThrown(r) == "error" \in DOMAIN r

\* what provider.resolveRenameLocation answers
LocationResponses ==
    { NoResult,
      Thrown("location"),
      [range |-> Rng(1, 1, 1, 4), text |-> "foo"] }

\* locations a provider resolves for the pre-fill: no result, and the text of
\* every non-empty grid range and of columns [5, 12) of "let fooBarX"
PrefillLocationResponses ==
    { NoResult } \cup
    { [range |-> r, text |-> getValueInRange(r)] :
        r \in { g \in GridRanges : ~isEmpty(g) } \cup { Rng(2, 5, 2, 12) } }

\* the edits of a WorkspaceEdit computed by the provider at index i
ResourceEdits(i) == "edits of provider " \o ToString(i)

\* what provider.provideRenameEdits of the provider at index i answers: no
\* result, a rejection, an edit, an edit with an empty rejectReason, an error
EditResponses(i) ==
    { NoResult,
      Thrown("edits"),
      [edits |-> undefined, rejectReason |-> "a"],
      [edits |-> ResourceEdits(i), rejectReason |-> undefined],
      [edits |-> ResourceEdits(i), rejectReason |-> ""] }

\* what RenameInputField.getInput resolves to: a new name or a focus flag
InputResults ==
    { [typeof |-> "string", value |-> "bar"],
      [typeof |-> "boolean", value |-> TRUE],
      [typeof |-> "boolean", value |-> FALSE] }

\* what IBulkEditService.apply resolves to
ApplyResults == { [ariaSummary |-> "1 edit"], [ariaSummary |-> undefined] }

\* -------------------------------------------------------------------- state

\* rename sessions that can be in progress on the one editor
Sessions == {1, 2}

VARIABLES
    registry,            \* RenameProviderRegistry.ordered(model)
    editor,              \* position, selection, versionId and scrollTop of the editor
    userEdits,           \* user interactions so far
    renameInputVisible,  \* the context key CONTEXT_RENAME_INPUT_VISIBLE
    runs,                \* invocations of RenameController.run so far
    pc,                  \* per session: where run() is suspended, or how it ended
    skeleton,            \* per session: the RenameSkeleton of run()
    located,             \* per session: the resolveRenameLocation queries made
    loc,                 \* per session: the resolved RenameLocation
    inputArgs,           \* per session: the arguments getInput was called with
    input,               \* per session: what getInput resolved to
    state,               \* per session: the EditorState captured on confirmation
    frame,               \* per session: arguments of the current provideRenameEdits call
    inflight,            \* per session: indices of providers whose edit call is pending
    calls,               \* per session: the provider edit calls made, in order
    responses,           \* per session: the provider responses received, in order
    result,              \* per session: what provideRenameEdits resolved to
    ui,                  \* per session: calls made on the editor and the services
    promise              \* per session: the promise run() returned

vars ==
    << registry, editor, userEdits, renameInputVisible, runs, pc, skeleton, located,
       loc, inputArgs, input, state, frame, inflight, calls, responses, result, ui,
       promise >>

\* the variables of the editor and its services
editorVars == << registry, editor, userEdits, renameInputVisible >>

\* the variables of the sessions
sessionVars ==
    << pc, skeleton, located, loc, inputArgs, input, state, frame, inflight, calls,
       responses, result, ui, promise >>

Terminal == {"Done", "Rejected", "Cancelled", "Errored", "Aborted"}

\* no rename session has started
InitSessions ==
    /\ userEdits = 0
    /\ renameInputVisible = FALSE
    /\ runs = 0
    /\ pc = [s \in Sessions |-> "Idle"]
    /\ skeleton = [s \in Sessions |-> NoResult]
    /\ located = [s \in Sessions |-> <<>>]
    /\ loc = [s \in Sessions |-> NoResult]
    /\ inputArgs = [s \in Sessions |-> NoResult]
    /\ input = [s \in Sessions |-> NoResult]
    /\ state = [s \in Sessions |-> NoResult]
    /\ frame = [s \in Sessions |-> NoResult]
    /\ inflight = [s \in Sessions |-> {}]
    /\ calls = [s \in Sessions |-> <<>>]
    /\ responses = [s \in Sessions |-> <<>>]
    /\ result = [s \in Sessions |-> NoResult]
    /\ ui = [s \in Sessions |-> <<>>]
    /\ promise = [s \in Sessions |-> "pending"]

Init ==
    /\ registry \in Chains
    /\ editor = [position |-> PositionOf(Rng(1, 2, 1, 2)), selection |-> Rng(1, 2, 1, 2),
                 versionId |-> 1, scrollTop |-> 0]
    /\ InitSessions

\* the editor has any of the selections of the pre-fill
InitPrefill ==
    /\ registry \in Chains
    /\ \E selection \in PrefillSelections :
         editor = [position |-> PositionOf(selection), selection |-> selection,
                   versionId |-> 1, scrollTop |-> 0]
    /\ InitSessions

\* ------------------------------------------------------------ RenameSkeleton

\* new RenameSkeleton(model, position)
RenameSkeleton(position) == [_provider |-> registry, position |-> position]

\* a hasProvider that accepts the empty chain
hasProviderAlways(sk) == Len(sk._provider) >= 0

\* RenameSkeleton.hasProvider
hasProvider(sk) == Len(sk._provider) > 0

\* a fallback that asks the provider that failed once more
NextProviderRetries(i) == i

\* a fallback that passes over the next provider of the chain
NextProviderSkips(i) == i + 2

\* the index provideRenameEdits recurses to after the provider at i failed
NextProvider(i) == i + 1

\* a concat that puts the new reason first
concatInFront(rejects, reason) == <<reason>> \o rejects

\* rejects.concat(reason)
concat(rejects, reason) == Append(rejects, reason)

\* a fallback that starts the next call while the call of provider i is pending
AwaitedNot(pending, i) == pending

\* the provider calls still pending once the awaited call of provider i settled
Awaited(pending, i) == pending \ {i}

\* the synthetic result of an exhausted chain
Exhausted(rejects) == [edits |-> undefined, rejectReason |-> join(rejects, "\n")]

\* a destructuring that takes the last provider of the chain
LocationProviderLast(chain) == Len(chain) - 1

\* let [provider] = this._provider: the index of the provider that
\* resolveRenameLocation asks
LocationProvider(chain) == 0

\* whether resolveRenameLocation calls the provider: it has providers and the
\* one it takes implements resolveRenameLocation
AsksProvider(sk) ==
    /\ Len(sk._provider) > 0
    /\ sk._provider[LocationProvider(sk._provider) + 1].resolveRenameLocation

\* the word-boundary fallback of resolveRenameLocation
WordLocation(position) ==
    LET word == getWordAtPosition(position)
    IN  IF word = NoResult THEN NoResult
        ELSE [range |-> Rng(position.lineNumber, word.startColumn,
                            position.lineNumber, word.endColumn),
              text |-> word.word]

\* the value resolveRenameLocation resolves to, given the provider's answer
\* (undefined when the provider has no resolveRenameLocation)
ResolvedLocation(sk, res) ==
    IF res # NoResult THEN res ELSE WordLocation(sk.position)

\* ----------------------------------------------------------- RenameController

\* a reset that leaves the key as it is
resetNot(key) == key

\* IContextKey.reset(): back to the default value of the key
reset(key) == FALSE

\* a boolean branch that focuses the editor whatever the flag
restoreFocusAlways(focusFlag, shown) == Append(shown, [call |-> "focus"])

\* the boolean branch of the getInput handler: the editor is focused when the
\* flag is true
restoreFocus(focusFlag, shown) ==
    IF focusFlag THEN Append(shown, [call |-> "focus"]) ELSE shown

\* a rejection handler that shows nothing
notifyErrorNot(shown) == shown

\* the rejection handler of the rename operation: the failure notification
notifyError(shown) ==
    Append(shown, [call |-> "error", message |-> RenameFailedMessage])

\* the selection pre-fill of run(): offsets into the symbol text
Prefill(location, selection) ==
    IF /\ ~isEmpty(selection)
       /\ ~spansMultipleLines(selection)
       /\ containsRange(location.range, selection)
    THEN [selectionStart |-> Max(0, selection.startColumn - location.range.startColumn),
          selectionEnd |-> Min(location.range.endColumn, selection.endColumn)
                               - location.range.startColumn]
    ELSE [selectionStart |-> 0, selectionEnd |-> Len(location.text)]

\* run() up to its first await: the skeleton is built, and nothing more
\* happens when it has no provider
Run(s) ==
    /\ pc[s] = "Idle"
    /\ runs < MaxRuns
    /\ runs' = runs + 1
    /\ LET sk == RenameSkeleton(editor.position)
       IN  IF ~hasProvider(sk)
           THEN UNCHANGED << pc, skeleton, located >>
           ELSE /\ skeleton' = [skeleton EXCEPT ![s] = sk]
                /\ located' = [located EXCEPT ![s] =
                      IF AsksProvider(sk)
                      THEN << [provider |-> LocationProvider(sk._provider)] >>
                      ELSE << >>]
                /\ pc' = [pc EXCEPT ![s] = "Locating"]
    /\ UNCHANGED << editorVars, loc, inputArgs, input, state, frame, inflight,
                    calls, responses, result, ui, promise >>

\* run() from the answer of resolveRenameLocation to the call of getInput.
\* Destructuring an empty _provider leaves provider undefined, and reading
\* provider.resolveRenameLocation then throws a TypeError.
LocateAnswered(s, locations) ==
    /\ pc[s] = "Locating"
    /\ LET sk == skeleton[s]
           answers ==
               IF Len(sk._provider) = 0 THEN {Thrown("TypeError")}
               ELSE IF AsksProvider(sk) THEN locations
               ELSE {NoResult}
       IN  \E res \in answers :
           /\ located' = [located EXCEPT ![s] =
                 IF AsksProvider(sk)
                 THEN << [provider |-> LocationProvider(sk._provider), answer |-> res] >>
                 ELSE @]
           /\
             IF IsThrown(res)
             THEN /\ ui' = [ui EXCEPT ![s] =
                              Append(@, [call |-> "showMessage", message |-> res.error,
                                         position |-> sk.position])]
                  /\ pc' = [pc EXCEPT ![s] = "Aborted"]
                  /\ promise' = [promise EXCEPT ![s] = "resolved"]
                  /\ UNCHANGED << loc, inputArgs, renameInputVisible >>
             ELSE LET location == ResolvedLocation(sk, res)
                  IN  IF location = NoResult
                      THEN /\ pc' = [pc EXCEPT ![s] = "Aborted"]
                           /\ promise' = [promise EXCEPT ![s] = "resolved"]
                           /\ UNCHANGED << loc, inputArgs, renameInputVisible, ui >>
                      ELSE /\ loc' = [loc EXCEPT ![s] = location]
                           /\ renameInputVisible' = TRUE
                           /\ inputArgs' = [inputArgs EXCEPT ![s] =
                                  [range |-> location.range, text |-> location.text]
                                  @@ Prefill(location, editor.selection)]
                           /\ pc' = [pc EXCEPT ![s] = "AwaitingInput"]
                           /\ UNCHANGED << ui, promise >>
    /\ UNCHANGED << registry, editor, userEdits, runs, skeleton, input, state,
                    frame, inflight, calls, responses, result >>

LocateReturn(s) == LocateAnswered(s, LocationResponses)

\* the continuation of run() on the result of provideRenameEdits: a rejection
\* is shown inline or as a notification, an edit goes to the bulk edit service
HandleResult(s, res, snapshot, shown) ==
    /\ result' = [result EXCEPT ![s] = res]
    /\ IF Truthy(res.rejectReason)
       THEN /\ ui' = [ui EXCEPT ![s] =
                        IF validate(snapshot, editor)
                        THEN Append(shown, [call |-> "showMessage",
                                            message |-> res.rejectReason,
                                            position |-> editor.position])
                        ELSE Append(shown, [call |-> "info",
                                            message |-> res.rejectReason])]
            /\ pc' = [pc EXCEPT ![s] = "Rejected"]
            /\ promise' = [promise EXCEPT ![s] = "resolved"]
       ELSE /\ ui' = [ui EXCEPT ![s] = Append(shown, [call |-> "apply", edit |-> res])]
            /\ pc' = [pc EXCEPT ![s] = "Applying"]
            /\ promise' = promise

\* provideRenameEdits(newName, i, rejects, position) up to its await, and the
\* continuation of run() when it resolves without awaiting a provider
provideRenameEdits(s, newName, i, rejects, position, pending, snapshot, shown) ==
    /\ frame' = [frame EXCEPT ![s] =
                   [newName |-> newName, i |-> i, rejects |-> rejects,
                    position |-> position]]
    /\ IF i >= Len(skeleton[s]._provider)
       THEN /\ inflight' = [inflight EXCEPT ![s] = pending]
            /\ calls' = calls
            /\ HandleResult(s, Exhausted(rejects), snapshot, shown)
       ELSE /\ inflight' = [inflight EXCEPT ![s] = pending \cup {i}]
            /\ calls' = [calls EXCEPT ![s] =
                           Append(@, [provider |-> i, position |-> skeleton[s].position,
                                      newName |-> newName])]
            /\ pc' = [pc EXCEPT ![s] = "Resolving"]
            /\ ui' = [ui EXCEPT ![s] = shown]
            /\ UNCHANGED << result, promise >>

\* the fulfilment handler of getInput
InputReturn(s, newNameOrFocusFlag) ==
    /\ pc[s] = "AwaitingInput"
    /\ input' = [input EXCEPT ![s] = newNameOrFocusFlag]
    /\ renameInputVisible' = reset(renameInputVisible)
    /\ IF newNameOrFocusFlag.typeof = "boolean"
       THEN /\ ui' = [ui EXCEPT ![s] = restoreFocus(newNameOrFocusFlag.value, @)]
            /\ pc' = [pc EXCEPT ![s] = "Cancelled"]
            /\ promise' = [promise EXCEPT ![s] = "resolved"]
            /\ UNCHANGED << state, frame, inflight, calls, result >>
       ELSE /\ state' = [state EXCEPT ![s] = EditorState(editor)]
            /\ provideRenameEdits(s, newNameOrFocusFlag.value, 0, <<>>,
                                  getStartPosition(loc[s].range), inflight[s],
                                  EditorState(editor),
                                  ui[s] \o << [call |-> "focus"],
                                             [call |-> "showWhile", delay |-> 250] >>)
    /\ UNCHANGED << registry, editor, userEdits, runs, skeleton, located, loc,
                    inputArgs, responses >>

\* the rejection handler of getInput
InputError(s) ==
    /\ pc[s] = "AwaitingInput"
    /\ input' = [input EXCEPT ![s] = Thrown("input")]
    /\ renameInputVisible' = reset(renameInputVisible)
    /\ pc' = [pc EXCEPT ![s] = "Errored"]
    /\ promise' = [promise EXCEPT ![s] = "rejected"]
    /\ UNCHANGED << registry, editor, userEdits, runs, skeleton, located, loc,
                    inputArgs, state, frame, inflight, calls, responses, result, ui >>

\* provideRenameEdits from the answer of the awaited provider on, and the
\* continuation of run() when the chain resolves or fails
ProviderReturn(s, i, res) ==
    /\ pc[s] = "Resolving"
    /\ i = frame[s].i
    /\ responses' = [responses EXCEPT ![s] = Append(@, [provider |-> i, answer |-> res])]
    /\ LET f == frame[s]
           pending == Awaited(inflight[s], f.i)
       IN  IF IsThrown(res)
           THEN /\ inflight' = [inflight EXCEPT ![s] = pending]
                /\ ui' = [ui EXCEPT ![s] = notifyError(@)]
                /\ pc' = [pc EXCEPT ![s] = "Errored"]
                /\ promise' = [promise EXCEPT ![s] = "rejected"]
                /\ UNCHANGED << frame, calls, result >>
           ELSE IF res = NoResult
           THEN provideRenameEdits(s, f.newName, NextProvider(f.i),
                                   concat(f.rejects, NoResultMessage),
                                   skeleton[s].position, pending, state[s], ui[s])
           ELSE IF Truthy(res.rejectReason)
           THEN provideRenameEdits(s, f.newName, NextProvider(f.i),
                                   concat(f.rejects, res.rejectReason),
                                   skeleton[s].position, pending, state[s], ui[s])
           ELSE /\ inflight' = [inflight EXCEPT ![s] = pending]
                /\ HandleResult(s, res, state[s], ui[s])
                /\ UNCHANGED << frame, calls >>
    /\ UNCHANGED << editorVars, runs, skeleton, located, loc, inputArgs, input,
                    state >>

\* the fulfilment handler of IBulkEditService.apply; the edit has changed the
\* document
ApplyReturn(s, applied) ==
    /\ pc[s] = "Applying"
    /\ editor' = [editor EXCEPT !.versionId = @ + 1]
    /\ ui' = [ui EXCEPT ![s] =
                IF Truthy(applied.ariaSummary)
                THEN Append(@, [call |-> "alert", summary |-> applied.ariaSummary])
                ELSE @]
    /\ pc' = [pc EXCEPT ![s] = "Done"]
    /\ promise' = [promise EXCEPT ![s] = "resolved"]
    /\ UNCHANGED << registry, userEdits, renameInputVisible, runs, skeleton, located,
                    loc, inputArgs, input, state, frame, inflight, calls, responses,
                    result >>

\* IBulkEditService.apply fails: no handler of run() takes the error, it
\* rejects the promise of run()
ApplyError(s) ==
    /\ pc[s] = "Applying"
    /\ pc' = [pc EXCEPT ![s] = "Errored"]
    /\ promise' = [promise EXCEPT ![s] = "rejected"]
    /\ UNCHANGED << editorVars, runs, skeleton, located, loc, inputArgs, input,
                    state, frame, inflight, calls, responses, result, ui >>

\* ------------------------------------------------------------------- rename()

\* provideRenameEdits(newName, i, rejects, position) called for rename(), up
\* to its await or to the result of an exhausted chain
RenameEdits(s, sk, newName, i, rejects, position, pending) ==
    /\ frame' = [frame EXCEPT ![s] =
                   [newName |-> newName, i |-> i, rejects |-> rejects,
                    position |-> position]]
    /\ IF i >= Len(sk._provider)
       THEN /\ inflight' = [inflight EXCEPT ![s] = pending]
            /\ result' = [result EXCEPT ![s] = Exhausted(rejects)]
            /\ pc' = [pc EXCEPT ![s] = "Returned"]
            /\ promise' = [promise EXCEPT ![s] = "resolved"]
            /\ calls' = calls
       ELSE /\ inflight' = [inflight EXCEPT ![s] = pending \cup {i}]
            /\ calls' = [calls EXCEPT ![s] =
                           Append(@, [provider |-> i, position |-> sk.position,
                                      newName |-> newName])]
            /\ pc' = [pc EXCEPT ![s] = "Renaming"]
            /\ UNCHANGED << result, promise >>

\* rename(model, position, newName): a skeleton is built and asked for the
\* edits, without a look at hasProvider
RenameCall(s, position, newName) ==
    /\ pc[s] = "Idle"
    /\ LET sk == RenameSkeleton(position)
       IN  /\ skeleton' = [skeleton EXCEPT ![s] = sk]
           /\ RenameEdits(s, sk, newName, 0, << >>, sk.position, inflight[s])
    /\ UNCHANGED << editorVars, runs, located, loc, inputArgs, input, state,
                    responses, ui >>

\* provideRenameEdits called for rename(), from the answer of the awaited
\* provider on
RenameProviderReturn(s, i, res) ==
    /\ pc[s] = "Renaming"
    /\ i = frame[s].i
    /\ responses' = [responses EXCEPT ![s] = Append(@, [provider |-> i, answer |-> res])]
    /\ LET f == frame[s]
           pending == Awaited(inflight[s], f.i)
       IN  IF IsThrown(res)
           THEN /\ inflight' = [inflight EXCEPT ![s] = pending]
                /\ pc' = [pc EXCEPT ![s] = "Thrown"]
                /\ promise' = [promise EXCEPT ![s] = "rejected"]
                /\ UNCHANGED << frame, calls, result >>
           ELSE IF res = NoResult
           THEN RenameEdits(s, skeleton[s], f.newName, NextProvider(f.i),
                            concat(f.rejects, NoResultMessage),
                            skeleton[s].position, pending)
           ELSE IF Truthy(res.rejectReason)
           THEN RenameEdits(s, skeleton[s], f.newName, NextProvider(f.i),
                            concat(f.rejects, res.rejectReason),
                            skeleton[s].position, pending)
           ELSE /\ inflight' = [inflight EXCEPT ![s] = pending]
                /\ result' = [result EXCEPT ![s] = res]
                /\ pc' = [pc EXCEPT ![s] = "Returned"]
                /\ promise' = [promise EXCEPT ![s] = "resolved"]
                /\ UNCHANGED << frame, calls >>
    /\ UNCHANGED << editorVars, runs, skeleton, located, loc, inputArgs, input,
                    state, ui >>

\* ------------------------------------------------------------------ the user

\* the user types: the content version of the document changes
UserType ==
    /\ userEdits < MaxUserEdits
    /\ userEdits' = userEdits + 1
    /\ editor' = [editor EXCEPT !.versionId = @ + 1]
    /\ UNCHANGED << registry, renameInputVisible, runs, sessionVars >>

\* the user moves the cursor or selects text
UserSelect(selection) ==
    /\ userEdits < MaxUserEdits
    /\ selection # editor.selection
    /\ userEdits' = userEdits + 1
    /\ editor' = [editor EXCEPT !.selection = selection,
                                !.position = PositionOf(selection)]
    /\ UNCHANGED << registry, renameInputVisible, runs, sessionVars >>

\* the user scrolls
UserScroll ==
    /\ userEdits < MaxUserEdits
    /\ userEdits' = userEdits + 1
    /\ editor' = [editor EXCEPT !.scrollTop = 1 - @]
    /\ UNCHANGED << registry, renameInputVisible, runs, sessionVars >>

\* ----------------------------------------------------------- specifications

\* the steps of one session
SessionStep(s) ==
    \/ Run(s)
    \/ LocateReturn(s)
    \/ \E v \in InputResults : InputReturn(s, v)
    \/ InputError(s)
    \/ \E i \in inflight[s] : \E res \in EditResponses(i) : ProviderReturn(s, i, res)
    \/ \E applied \in ApplyResults : ApplyReturn(s, applied)
    \/ ApplyError(s)

UserStep ==
    \/ UserType
    \/ \E selection \in Selections : UserSelect(selection)
    \/ UserScroll

\* one rename session on the editor, and the user
Next ==
    \/ SessionStep(1)
    \/ UserStep

Spec == Init /\ [][Next]_vars

\* rename sessions that overlap on the editor
NextOverlap ==
    \E s \in Sessions : SessionStep(s)

SpecOverlap == Init /\ [][NextOverlap]_vars

\* one session up to the call of getInput, for every selection and location
NextPrefill ==
    \/ Run(1)
    \/ LocateAnswered(1, PrefillLocationResponses)

SpecPrefill == InitPrefill /\ [][NextPrefill]_vars

\* one session whose collaborators all answer in the end: the provider asked
\* for the location, the rename input field, every provider asked for edits
\* and the bulk edit service
SpecFair ==
    /\ Init
    /\ [][SessionStep(1)]_vars
    /\ WF_vars(LocateReturn(1))
    /\ WF_vars((\E v \in InputResults : InputReturn(1, v)) \/ InputError(1))
    /\ WF_vars(\E i \in inflight[1] : \E res \in EditResponses(i) :
                  ProviderReturn(1, i, res))
    /\ WF_vars((\E applied \in ApplyResults : ApplyReturn(1, applied)) \/ ApplyError(1))

\* callers of rename(), at the positions of the selections
NextRename ==
    \E s \in Sessions :
        \/ \E selection \in Selections : RenameCall(s, PositionOf(selection), "bar")
        \/ \E i \in inflight[s] : \E res \in EditResponses(i) :
              RenameProviderReturn(s, i, res)

SpecRename == Init /\ [][NextRename]_vars

\* ------------------------------------------------- the provider fallback chain

\* a provider answer that makes provideRenameEdits go on to the next provider
Fails(answer) ==
    IF answer = NoResult THEN TRUE
    ELSE IF IsThrown(answer) THEN FALSE
    ELSE Truthy(answer.rejectReason)

\* a provider answer that provideRenameEdits returns: a result without a
\* rejectReason
Wins(answer) ==
    IF answer = NoResult \/ IsThrown(answer) THEN FALSE
    ELSE ~Truthy(answer.rejectReason)

\* the reason a failed provider contributes
ReasonOf(answer) ==
    IF answer = NoResult THEN "No result." ELSE answer.rejectReason

\* the first n reasons, each on a line of its own
RECURSIVE Lines(_, _)
Lines(answers, n) ==
    IF n = 0 THEN ""
    ELSE IF n = 1 THEN ReasonOf(answers[1].answer)
    ELSE Lines(answers, n - 1) \o "\n" \o ReasonOf(answers[n].answer)

\* C1: the providers whose edit call one resolveEdits invokes are P0..Pk in
\* chain order, none skipped; each one but the last has failed; a provider
\* that returns a result without a rejectReason is the last one invoked and
\* its result is the value returned.
C1_PrefixUntilFirstSuccess ==
    \A s \in Sessions :
        LET n == Len(calls[s])
            m == Len(responses[s])
        IN  /\ n > 0 => n <= Len(skeleton[s]._provider)
            /\ \A k \in 1..n : calls[s][k].provider = k - 1
            /\ m <= n
            /\ \A k \in 1..m : responses[s][k].provider = k - 1
            /\ \A k \in 1..m :
                 k < n => Fails(responses[s][k].answer)
            /\ \A k \in 1..m :
                 Wins(responses[s][k].answer) =>
                     /\ k = n
                     /\ result[s] = responses[s][k].answer
            /\ (result[s] # NoResult /\ ~Truthy(result[s].rejectReason)) =>
                     /\ m = n
                     /\ result[s] = responses[s][m].answer

\* the chain P0 rejects, P1 succeeds, P2 is never invoked
C1_Witness ==
    \E s \in Sessions :
        /\ skeleton[s] # NoResult
        /\ Len(skeleton[s]._provider) = 3
        /\ Len(calls[s]) = 2
        /\ Len(responses[s]) = 2
        /\ responses[s][1].answer = [edits |-> undefined, rejectReason |-> "a"]
        /\ result[s] = [edits |-> ResourceEdits(1), rejectReason |-> undefined]
        /\ pc[s] = "Done"

\* C2: when all N >= 1 providers of the chain fail with no result or with a
\* rejectReason, resolveEdits returns edits undefined and the N reasons joined
\* by newline in chain order, "No result." standing for a missing result.
C2_AllRejected ==
    \A s \in Sessions :
        (/\ skeleton[s] # NoResult
         /\ Len(skeleton[s]._provider) >= 1
         /\ Len(responses[s]) = Len(skeleton[s]._provider)
         /\ \A k \in 1..Len(responses[s]) : Fails(responses[s][k].answer))
        => /\ result[s] # NoResult
           /\ result[s].edits = undefined
           /\ result[s].rejectReason = Lines(responses[s], Len(responses[s]))

\* three providers: a rejection, no result, a rejection
C2_Witness ==
    \E s \in Sessions :
        /\ Len(responses[s]) = 3
        /\ responses[s][2].answer = NoResult
        /\ result[s] = [edits |-> undefined, rejectReason |-> "a\nNo result.\na"]

\* C3: in one session at most one provider edit call is pending at any time,
\* and the call of the next provider is made only after the call before it
\* has completed with a failure.
C3_OneCallInFlight ==
    \A s \in Sessions :
        /\ Cardinality(inflight[s]) <= 1
        /\ Len(calls[s]) <= Len(responses[s]) + 1
        /\ Len(calls[s]) = Len(responses[s]) + Cardinality(inflight[s])
        /\ \A k \in 2..Len(calls[s]) :
             /\ responses[s][k - 1].provider = calls[s][k - 1].provider
             /\ Fails(responses[s][k - 1].answer)

\* both sessions wait for their second provider after the first one failed
C3_Witness ==
    /\ \A s \in Sessions : inflight[s] = {1} /\ Len(responses[s]) = 1
    /\ responses[1][1].answer # responses[2][1].answer

\* ------------------------------------------------------- the visibility flag

AwaitingInput(s) == pc[s] = "AwaitingInput"

\* C4: the "rename input visible" context key is true only while a session of
\* the editor is in AwaitingInput; when every session is Idle, Locating,
\* Resolving, Applying or ended, it is false.
C4_VisibleOnlyAwaitingInput ==
    /\ renameInputVisible => \E s \in Sessions : AwaitingInput(s)
    /\ (\A s \in Sessions :
          pc[s] \in {"Idle", "Locating", "Resolving", "Applying"} \cup Terminal)
       => ~renameInputVisible

\* a session has left AwaitingInput with a name and computes, the key is false
C4_Witness ==
    /\ ~renameInputVisible
    /\ pc[1] = "Resolving"
    /\ input[1] = [typeof |-> "string", value |-> "bar"]
    /\ pc[2] = "Cancelled"

\* the step in which session s ends as Done, Rejected, Cancelled or Errored
Ends(s) ==
    /\ pc[s] \notin Terminal
    /\ pc'[s] \in {"Done", "Rejected", "Cancelled", "Errored"}

\* C5 as stated: for every terminal outcome of a session the key is false
\* immediately after the session ends.
C5_FalseAtEveryEnd ==
    [][\A s \in Sessions : Ends(s) => ~renameInputVisible']_vars

\* C5 as amended: for every terminal outcome of a session the key is false
\* immediately after the session ends, unless another session of the editor
\* is in AwaitingInput at that moment.
C5_FalseAtEndUnlessOtherAwaits ==
    [][\A s \in Sessions :
          Ends(s) =>
              \/ ~renameInputVisible'
              \/ \E o \in Sessions \ {s} : pc'[o] = "AwaitingInput"]_vars

\* a session has ended on an error of the input field and the key is false
C5_Witness ==
    /\ pc[1] = "Errored"
    /\ input[1] = Thrown("input")
    /\ pc[2] = "Done"
    /\ ~renameInputVisible

\* ------------------------------------------------------ rejections and errors

\* the calls of one kind a session has made on the editor and the services
Shown(s, kind) == { k \in 1..Len(ui[s]) : ui[s][k].call = kind }

\* C6: when resolveEdits returns a non-empty rejectReason, it is shown inline
\* at the current cursor position iff position, content version, selection and
\* scroll equal the snapshot taken on confirmation, and as an informational
\* notification otherwise; the bulk edit service is not invoked.
C6_RejectionInlineIffUnchanged ==
    [][\A s \in Sessions :
          (/\ result[s] = NoResult
           /\ result'[s] # NoResult
           /\ Truthy(result'[s].rejectReason))
          => LET unchanged == /\ state[s].position = editor.position
                              /\ state[s].versionId = editor.versionId
                              /\ state[s].selection = editor.selection
                              /\ state[s].scrollTop = editor.scrollTop
                 reason == result'[s].rejectReason
             IN  /\ ui'[s] = Append(ui[s],
                       IF unchanged
                       THEN [call |-> "showMessage", message |-> reason,
                             position |-> editor.position]
                       ELSE [call |-> "info", message |-> reason])
                 /\ \A k \in 1..Len(ui'[s]) : ui'[s][k].call # "apply"
                 /\ pc'[s] = "Rejected"]_vars

\* the content version changed while the providers computed, and the rejection
\* came as a notification
C6_Witness ==
    \E s \in Sessions :
        /\ pc[s] = "Rejected"
        /\ ui[s][Len(ui[s])] = [call |-> "info", message |-> "a\nNo result."]
        /\ state[s].versionId # editor.versionId
        /\ state[s].position = editor.position
        /\ state[s].selection = editor.selection
        /\ state[s].scrollTop = editor.scrollTop

\* C7: when a provider fails with an exception during edit resolution, the
\* notification "Rename failed to execute." is shown exactly once, the error
\* reaches the caller of run, and the bulk edit service is never invoked.
C7_ChainErrorNotifiedOnce ==
    \A s \in Sessions :
        (/\ Len(responses[s]) > 0
         /\ IsThrown(responses[s][Len(responses[s])].answer))
        => /\ Cardinality(Shown(s, "error")) = 1
           /\ \A k \in Shown(s, "error") :
                ui[s][k].message = "Rename failed to execute."
           /\ promise[s] = "rejected"
           /\ Shown(s, "apply") = {}
           /\ pc[s] = "Errored"

\* the second provider throws after the first one rejected
C7_Witness ==
    \E s \in Sessions :
        /\ Len(responses[s]) = 2
        /\ IsThrown(responses[s][2].answer)
        /\ pc[s] = "Errored"

\* C8: an exception of the bulk edit service's apply is handled like one of
\* edit resolution: the failure notification is shown and the error reaches
\* the caller of run.
C8_ApplyErrorNotified ==
    \A s \in Sessions :
        (pc[s] = "Errored" /\ Shown(s, "apply") # {})
        => /\ Shown(s, "error") # {}
           /\ promise[s] = "rejected"

\* ------------------------------------------------------------- cancellation

IsFocusFlag(v) == v # NoResult /\ ~IsThrown(v) /\ v.typeof = "boolean"

\* C9: when the input field returns a boolean, the session ends without a
\* provider edit call and without the bulk edit service; the key is reset, and
\* the editor is focused iff the boolean is true.
C9_CancelledWithoutEdit ==
    [][\A s \in Sessions :
          IsFocusFlag(input'[s])
          => /\ pc'[s] = "Cancelled"
             /\ calls'[s] = <<>>
             /\ inflight'[s] = {}
             /\ \A k \in 1..Len(ui'[s]) : ui'[s][k].call \notin {"apply", "showWhile"}
             /\ (\E k \in 1..Len(ui'[s]) : ui'[s][k].call = "focus") <=> input'[s].value
             /\ ~IsFocusFlag(input[s]) => ~renameInputVisible']_vars

\* the input was cancelled without the focus going back to the editor
C9_Witness ==
    \E s \in Sessions :
        /\ input[s] = [typeof |-> "boolean", value |-> FALSE]
        /\ pc[s] = "Cancelled"
        /\ ui[s] = <<>>

\* ------------------------------------------------------------- no providers

\* C10: with an empty provider chain, run changes nothing: no location query,
\* no input field, the key is not set, no provider edit call, no apply, no
\* message or notification.
C10_NoProviderNoEffect ==
    [][(runs' # runs /\ registry = <<>>) => UNCHANGED << editorVars, sessionVars >>]_vars

\* run has been invoked on a document without providers after the user typed
C10_Witness ==
    /\ registry = <<>>
    /\ runs = 2
    /\ editor.versionId = 2
    /\ \A s \in Sessions : pc[s] = "Idle" /\ ui[s] = <<>>

\* ------------------------------------------------------------------ retries

\* C11: in one session each provider's edit call is made at most once and the
\* bulk edit service is invoked at most once, whatever the providers answer;
\* a rejection or an error causes no retry.
C11_AtMostOnce ==
    \A s \in Sessions :
        /\ \A j, k \in 1..Len(calls[s]) :
             calls[s][j].provider = calls[s][k].provider => j = k
        /\ Len(responses[s]) <= Len(calls[s])
        /\ Cardinality(Shown(s, "apply")) <= 1
        /\ pc[s] \in {"Rejected", "Errored"} =>
             /\ inflight[s] = {}
             /\ Cardinality(Shown(s, "apply")) + Cardinality(Shown(s, "error")) <= 1

\* every provider of a chain of three was asked once and all three rejected
C11_Witness ==
    \E s \in Sessions :
        /\ pc[s] = "Rejected"
        /\ Len(calls[s]) = 3
        /\ Len(responses[s]) = 3
        /\ Shown(s, "apply") = {}

\* ------------------------------------------------------ the position argument

\* C12: every provider consulted by resolveEdits, the first one and each one
\* reached by fallback, receives the start position of the resolved range as
\* its position argument, not the cursor position captured at session start.
C12_RangeStartPassed ==
    \A s \in Sessions :
        \A k \in 1..Len(calls[s]) :
            calls[s][k].position = Pos(loc[s].range.startLineNumber,
                                       loc[s].range.startColumn)

\* ------------------------------------------------------ the rename location

\* the words of the document by position: on "foo  x", "foo" at and around
\* columns 1..4, "x" at columns 6..7 and no word at column 5; on
\* "let fooBarX", "let" at columns 1..4 and "fooBarX" at columns 5..12
WordAround(position) ==
    IF position.lineNumber = 1
    THEN IF position.column \in 1..4 THEN [range |-> Rng(1, 1, 1, 4), text |-> "foo"]
         ELSE IF position.column \in 6..7 THEN [range |-> Rng(1, 6, 1, 7), text |-> "x"]
         ELSE NoResult
    ELSE IF position.column \in 1..4 THEN [range |-> Rng(2, 1, 2, 4), text |-> "let"]
         ELSE [range |-> Rng(2, 5, 2, 12), text |-> "fooBarX"]

\* C13: resolveRenameLocation asks only the first provider of the chain for a
\* location, and only when it implements resolveRenameLocation; when that
\* provider has no such capability or answers nothing, the location is exactly
\* the range and text of the word at the position, and there is no location
\* (the session ends before any input) when no word is there either.
C13_FirstProviderElseWord ==
    \A s \in Sessions :
        pc[s] # "Idle" =>
            LET sk == skeleton[s]
                capable == sk._provider[1].resolveRenameLocation
            IN  /\ Len(located[s]) <= 1
                /\ \A k \in 1..Len(located[s]) : located[s][k].provider = 0
                /\ (located[s] # << >>) <=> capable
                /\ ( /\ pc[s] # "Locating"
                     /\ (~capable \/ located[s][1].answer = NoResult) ) =>
                       IF WordAround(sk.position) = NoResult
                       THEN pc[s] = "Aborted" /\ loc[s] = NoResult /\ ui[s] = << >>
                       ELSE pc[s] # "Aborted" /\ loc[s] = WordAround(sk.position)

\* the first provider of a chain of several has no resolveRenameLocation and
\* the session went on with the word at the cursor
C13_Witness ==
    \E s \in Sessions :
        /\ pc[s] = "AwaitingInput"
        /\ Len(skeleton[s]._provider) > 1
        /\ ~skeleton[s]._provider[1].resolveRenameLocation
        /\ skeleton[s]._provider[2].resolveRenameLocation
        /\ located[s] = << >>
        /\ loc[s] = [range |-> Rng(1, 1, 1, 4), text |-> "foo"]

\* ------------------------------------------------------ the pre-fill offsets

\* C14: getInput receives (selection.startColumn - range.startColumn,
\* selection.endColumn - range.startColumn) when the editor selection is
\* non-empty, on one line and contained in the resolved range, and
\* (0, length of the text) in every other case.
C14_ContainedSelectionOffsets ==
    \A s \in Sessions :
        pc[s] = "AwaitingInput" =>
            LET selection == editor.selection
                range == loc[s].range
            IN  IF /\ ~isEmpty(selection)
                   /\ selection.startLineNumber = selection.endLineNumber
                   /\ containsRange(range, selection)
                THEN /\ inputArgs[s].selectionStart =
                            selection.startColumn - range.startColumn
                     /\ inputArgs[s].selectionEnd =
                            selection.endColumn - range.startColumn
                ELSE /\ inputArgs[s].selectionStart = 0
                     /\ inputArgs[s].selectionEnd = Len(loc[s].text)

\* C19: for every resolved location and editor selection, a resolved range of
\* several lines included, the offsets (start, end) that getInput receives
\* satisfy 0 <= start <= end <= length of the text.
C19_OffsetsWithinText ==
    \A s \in Sessions :
        pc[s] = "AwaitingInput" =>
            /\ 0 <= inputArgs[s].selectionStart
            /\ inputArgs[s].selectionStart <= inputArgs[s].selectionEnd
            /\ inputArgs[s].selectionEnd <= Len(loc[s].text)

\* ------------------------------------------------------- a provider that throws

\* C15: in provideRenameEdits a provider whose call throws counts as failed
\* like one that answers nothing or a rejectReason: the next provider of the
\* chain is tried after it, so that a later provider can still win.
C15_ThrowFallsBack ==
    \A s \in Sessions :
        \A k \in 1..Len(responses[s]) :
            ( /\ IsThrown(responses[s][k].answer)
              /\ k < Len(skeleton[s]._provider) ) =>
                /\ Len(calls[s]) > k
                /\ calls[s][k + 1].provider = responses[s][k].provider + 1

\* ------------------------------------------------------------ a stale session

\* C16: a session whose editor state (position, content version, selection or
\* scroll) has changed since its snapshot does not apply its edit: whenever
\* the bulk edit service is called, the editor is still in the state of the
\* snapshot.
C16_StaleSessionDoesNotApply ==
    [][\A s \in Sessions :
          (pc[s] = "Resolving" /\ pc'[s] = "Applying") => validate(state[s], editor)]_vars

\* ---------------------------------------------------- the returned WorkspaceEdit

\* C17: every WorkspaceEdit that provideRenameEdits resolves to, for run and
\* for rename() and for every chain length, zero included, satisfies: if edits
\* is undefined then rejectReason is non-empty.
C17_NoEditsImpliesReason ==
    \A s \in Sessions :
        result[s] # NoResult =>
            (result[s].edits = undefined => Truthy(result[s].rejectReason))

\* ------------------------------------------------- the key of a pending input

\* C18: when rename sessions on the editor interleave, renameInputVisible is
\* true whenever at least one of them awaits its input: a session that leaves
\* AwaitingInput does not clear the key under another session's input.
C18_VisibleWhileAnyAwaits ==
    (\E s \in Sessions : pc[s] = "AwaitingInput") => renameInputVisible

\* ------------------------------------------------------ the end of a session

\* the outcomes of the state machine of a session
Outcomes == {"Done", "Rejected", "Cancelled", "Errored"}

\* the place of a state in Idle, Locating, AwaitingInput, Resolving, Applying,
\* and the end of the session after them
Rank(label) ==
    CASE label = "Idle" -> 0
      [] label = "Locating" -> 1
      [] label = "AwaitingInput" -> 2
      [] label = "Resolving" -> 3
      [] label = "Applying" -> 4
      [] OTHER -> 5

\* C20 as stated: a session that has ended is in one of Done, Rejected,
\* Cancelled, Errored.
C20_EndsInOutcome ==
    \A s \in Sessions : promise[s] # "pending" => pc[s] \in Outcomes

\* C20: when every collaborator answers in the end, a session that is past
\* hasProvider ends: in exactly one of Done, Rejected, Cancelled, Errored, or,
\* without an outcome, right after Locating when there is no location or
\* resolveRenameLocation failed. It goes through Idle, Locating, AwaitingInput,
\* Resolving, Applying in that order and never back, an ended session stays as
\* it is, and provideRenameEdits makes at most as many provider calls as the
\* chain has providers.
C20_EndsInOrder ==
    /\ \A s \in Sessions : (pc[s] = "Locating") ~> (pc[s] \in Terminal)
    /\ [][\A s \in Sessions :
            /\ pc'[s] # pc[s] => Rank(pc'[s]) > Rank(pc[s])
            /\ pc'[s] = "Aborted" => pc[s] = "Locating"
            /\ pc[s] \in Terminal =>
                 /\ pc'[s] = pc[s]
                 /\ promise'[s] = promise[s]
                 /\ calls'[s] = calls[s]]_vars
    /\ [](\A s \in Sessions :
            /\ pc[s] # "Idle" => Len(calls[s]) <= Len(skeleton[s]._provider)
            /\ pc[s] \in Terminal <=> promise[s] # "pending")

\* a session ended Done after the third provider of a chain of three gave the
\* edit
C20_Witness ==
    \E s \in Sessions :
        /\ pc[s] = "Done"
        /\ Len(calls[s]) = 3
        /\ Len(skeleton[s]._provider) = 3
        /\ promise[s] = "resolved"

====
